---- MODULE Spec2Model ----
(***************************************************************************)
(* Shift cash reconciliation of the pharmacy cash and ledger application.  *)
(* The store (Supabase tables) is the shared state; every store call of a  *)
(* manager method is one step of the session that runs it, so the steps of *)
(* two sessions may interleave between any two store calls.                *)
(*                                                                         *)
(* Money is modelled in whole currency units (integers); the rounding of   *)
(* binary floats is not modelled.  Times of day are not modelled, dates    *)
(* are day numbers.                                                        *)
(*                                                                         *)
(* Every store call returns in the specifications of this module: the      *)
(* except branches of the handlers (a store call that raises) are not      *)
(* taken here.                                                             *)
(***************************************************************************)
EXTENDS Integers, Sequences, FiniteSets, Bags, TLC

\* ------------------------------------------------------------------ bounds
MaxShifts == 2      \* shift rows ever inserted
MaxTx == 2          \* transaction rows ever inserted (all tables together)

\* ------------------------------------------------------- program constants
OPENING_CASH == 10000

ShiftTypes == {"Morning", "Evening", "Night"}

PersonalTypes == {"withdrawal", "investment"}

\* ----------------------------------------------------------- input values
Null == << >>
Some(v) == <<v>>

Sessions == {1, 2}
UserIds == {1, 2}
Amounts == {1, 2}
ClosingCashInputs == {OPENING_CASH, OPENING_CASH + 1}

VARIABLES
    shifts,                 \* table shifts: sequence of rows, id = index
    sales,                  \* table sales: bag of rows (the generated id is left out)
    expenses,               \* table expenses
    vendor_purchases,       \* table vendor_purchases
    vendor_payments,        \* table vendor_payments
    vendor_returns,         \* table vendor_returns
    personal_transactions,  \* table personal_transactions
    vendors,                \* table vendors: sequence of rows, id = index
    today,                  \* date.today()
    pc,                     \* per session: position inside the running method
    loc,                    \* per session: local variables of the running method
    result                  \* the tuple returned by the last finished call

tables == <<sales, expenses, vendor_purchases, vendor_payments, vendor_returns,
            personal_transactions>>
session == <<pc, loc>>
vars == <<shifts, sales, expenses, vendor_purchases, vendor_payments, vendor_returns,
          personal_transactions, vendors, today, pc, loc, result>>

\* ---------------------------------------------------------------- helpers
\* a table's select(...).eq(...): the rows that pass the filter, as many
\* times as stored
EqShiftId(table, shift_id) ==
    [r \in {x \in BagToSet(table) : x.shift_id = shift_id} |-> table[r]]

EqType(table, t) ==
    [r \in {x \in BagToSet(table) : x.transaction_type = t} |-> table[r]]

\* the rows a loop keeps under `else` after `if type == 'withdrawal'`
NotWithdrawal(table) ==
    [r \in {x \in BagToSet(table) : x.transaction_type # "withdrawal"} |-> table[r]]

\* sum(x['amount'] for x in rows)
RECURSIVE SumAmount(_)
SumAmount(rows) ==
    IF BagToSet(rows) = {} THEN 0
    ELSE LET r == CHOOSE x \in BagToSet(rows) : TRUE
         IN r.amount * rows[r] + SumAmount([x \in BagToSet(rows) \ {r} |-> rows[x]])

\* a table after insert(row)
Insert(table, row) == table (+) SetToBag({row})

\* rows stored in the six transaction tables
TxCount ==
    BagCardinality(sales) + BagCardinality(expenses) + BagCardinality(vendor_purchases)
    + BagCardinality(vendor_payments) + BagCardinality(vendor_returns)
    + BagCardinality(personal_transactions)

ShiftIds == DOMAIN shifts

\* the (success, message, data) tuple a manager method returns
Result(success, message, data) == [success |-> success, message |-> message, data |-> data]

\* locals of a session that runs nothing
LocIdle == [shift_name |-> "none", actor |-> 0, shift_id |-> 0, closing_cash |-> 0,
            opening |-> 0, sales |-> 0, expenses |-> 0, payments |-> 0,
            withdrawals |-> 0, investments |-> 0]

Init ==
    /\ shifts = << >>
    /\ sales = EmptyBag
    /\ expenses = EmptyBag
    /\ vendor_purchases = EmptyBag
    /\ vendor_payments = EmptyBag
    /\ vendor_returns = EmptyBag
    /\ personal_transactions = EmptyBag
    /\ vendors = << >>
    /\ today = 1
    /\ pc = [s \in Sessions |-> "idle"]
    /\ loc = [s \in Sessions |-> LocIdle]
    /\ result = Result(TRUE, "none", Null)

\* ------------------------------------------------- store-side trigger
\* The vendors table keeps current_balance through triggers of the store on
\* vendor_purchases, vendor_payments and vendor_returns: within the write
\* that inserts, updates or deletes a row, the balance of each vendor moves
\* by what the write changes in the vendor's purchases minus payments minus
\* returns.
VendorTotal(table, vendor_id) ==
    SumAmount([r \in {x \in BagToSet(table) : x.vendor_id = vendor_id} |-> table[r]])

BalanceTrigger ==
    vendors' = [v \in DOMAIN vendors |->
                  [vendors[v] EXCEPT !.current_balance =
                      @ + (VendorTotal(vendor_purchases', v) - VendorTotal(vendor_purchases, v))
                        - (VendorTotal(vendor_payments', v) - VendorTotal(vendor_payments, v))
                        - (VendorTotal(vendor_returns', v) - VendorTotal(vendor_returns, v))]]

\* =========================================================== ShiftManager
\* get_current_shift: the open rows of the type, latest opening_date first,
\* limit 1.  Rows with the same opening_date come in no defined order, so
\* every open row of the latest date is a possible answer; the empty set
\* stands for None.
GetCurrentShift_ClosedStatus(shift_name) ==
    LET shut == {i \in ShiftIds : shifts[i].shift_name = shift_name /\ shifts[i].status = "closed"}
    IN {i \in shut : \A j \in shut : shifts[j].opening_date <= shifts[i].opening_date}

GetCurrentShift_AnyStatus(shift_name) ==
    LET rows == {i \in ShiftIds : shifts[i].shift_name = shift_name}
    IN {i \in rows : \A j \in rows : shifts[j].opening_date <= shifts[i].opening_date}

GetCurrentShift(shift_name) ==
    LET open == {i \in ShiftIds : shifts[i].shift_name = shift_name /\ shifts[i].status = "open"}
    IN {i \in open : \A j \in open : shifts[j].opening_date <= shifts[i].opening_date}

\* the row open_shift inserts
NewShiftRow_NoOpeningCash(shift_name, opened_by) ==
    [shift_name |-> shift_name,
     opening_date |-> today,
     opening_cash |-> 0,
     opened_by |-> opened_by,
     status |-> "open",
     closing_date |-> Null,
     closing_cash |-> Null,
     expected_cash |-> Null,
     cash_difference |-> Null,
     closed_by |-> Null]

NewShiftRow(shift_name, opened_by) ==
    [shift_name |-> shift_name,
     opening_date |-> today,
     opening_cash |-> OPENING_CASH,
     opened_by |-> opened_by,
     status |-> "open",
     closing_date |-> Null,
     closing_cash |-> Null,
     expected_cash |-> Null,
     cash_difference |-> Null,
     closed_by |-> Null]

AlreadyOpen == Result(FALSE, "shift is already open.", Null)

Opened(id) == Result(TRUE, "shift opened successfully.", Some(id))

OpenShift_NoCheck(shift_name, opened_by) ==
    /\ shifts' = Append(shifts, NewShiftRow(shift_name, opened_by))
    /\ result' = Opened(Len(shifts) + 1)
    /\ UNCHANGED <<tables, vendors, today>>

\* open_shift, the whole call
OpenShift(shift_name, opened_by) ==
    /\ IF GetCurrentShift(shift_name) # {}
       THEN /\ result' = AlreadyOpen
            /\ UNCHANGED shifts
       ELSE /\ shifts' = Append(shifts, NewShiftRow(shift_name, opened_by))
            /\ result' = Opened(Len(shifts) + 1)
    /\ UNCHANGED <<tables, vendors, today>>

\* the store reads of calculate_expected_cash
ReadOpening(shift_id) ==
    IF shift_id \in ShiftIds THEN shifts[shift_id].opening_cash ELSE OPENING_CASH

ReadSales(shift_id) == SumAmount(EqShiftId(sales, shift_id))

ReadExpenses(shift_id) == SumAmount(EqShiftId(expenses, shift_id))

ReadPayments_FromPurchases(shift_id) == SumAmount(EqShiftId(vendor_purchases, shift_id))

ReadPayments(shift_id) == SumAmount(EqShiftId(vendor_payments, shift_id))

ReadWithdrawals(shift_id) ==
    SumAmount(EqType(EqShiftId(personal_transactions, shift_id), "withdrawal"))

ReadInvestments(shift_id) ==
    SumAmount(EqType(EqShiftId(personal_transactions, shift_id), "investment"))

\* the value calculate_expected_cash returns from what it has read
ExpectedCash(l) ==
    l.opening + l.sales - l.expenses - l.payments - l.withdrawals + l.investments

\* calculate_expected_cash with its six reads back to back
CalculateExpectedCash(shift_id) ==
    ExpectedCash([opening |-> ReadOpening(shift_id),
                  sales |-> ReadSales(shift_id),
                  expenses |-> ReadExpenses(shift_id),
                  payments |-> ReadPayments(shift_id),
                  withdrawals |-> ReadWithdrawals(shift_id),
                  investments |-> ReadInvestments(shift_id)])

CashDifference_Reversed(closing_cash, expected) == expected - closing_cash

CashDifference(closing_cash, expected) == closing_cash - expected

ClosedRow_NoClosedBy(row, closing_cash, expected, closed_by) ==
    [row EXCEPT !.closing_date = Some(today),
                !.closing_cash = Some(closing_cash),
                !.expected_cash = Some(expected),
                !.cash_difference = Some(CashDifference(closing_cash, expected)),
                !.status = "closed"]

\* the row after close_shift's update
ClosedRow(row, closing_cash, expected, closed_by) ==
    [row EXCEPT !.closing_date = Some(today),
                !.closing_cash = Some(closing_cash),
                !.expected_cash = Some(expected),
                !.cash_difference = Some(CashDifference(closing_cash, expected)),
                !.closed_by = Some(closed_by),
                !.status = "closed"]

NotFound == Result(FALSE, "Shift not found.", Null)

Closed(id) == Result(TRUE, "Shift closed.", Some(id))

CloseShift_NoLookup(shift_id, closing_cash, closed_by) ==
    /\ IF shift_id \notin ShiftIds
       THEN /\ result' = Result(FALSE, "Error closing shift", Null)
            /\ UNCHANGED shifts
       ELSE /\ shifts' = [shifts EXCEPT ![shift_id] =
                             ClosedRow(shifts[shift_id], closing_cash,
                                       CalculateExpectedCash(shift_id), closed_by)]
            /\ result' = Closed(shift_id)
    /\ UNCHANGED <<tables, vendors, today>>

\* close_shift, the whole call.  The row is looked up by id alone: its
\* status is not read.
CloseShift(shift_id, closing_cash, closed_by) ==
    /\ IF shift_id \notin ShiftIds
       THEN /\ result' = NotFound
            /\ UNCHANGED shifts
       ELSE /\ shifts' = [shifts EXCEPT ![shift_id] =
                             ClosedRow(shifts[shift_id], closing_cash,
                                       CalculateExpectedCash(shift_id), closed_by)]
            /\ result' = Closed(shift_id)
    /\ UNCHANGED <<tables, vendors, today>>

\* =================================================== transaction managers
\* Each add_* method stamps the row it is given with created_by, inserts it
\* and returns success; the row's shift_id is a foreign key, so it names an
\* existing shift row.  A row carries the columns the specification it is
\* used in reads (shift_id and amount for the shift cash, vendor_id and the
\* date as well for the vendor ledger).
Added(message) == Result(TRUE, message, Null)

Stamped(data, created_by) == [created_by |-> created_by] @@ data

AddSale(sale_data, created_by) ==
    /\ sale_data.shift_id \in ShiftIds
    /\ sales' = Insert(sales, Stamped(sale_data, created_by))
    /\ result' = Added("Sale added.")
    /\ UNCHANGED <<shifts, expenses, vendor_purchases, vendor_payments, vendor_returns,
                   personal_transactions, vendors, today>>

AddExpense(expense_data, created_by) ==
    /\ expense_data.shift_id \in ShiftIds
    /\ expenses' = Insert(expenses, Stamped(expense_data, created_by))
    /\ result' = Added("Expense added.")
    /\ UNCHANGED <<shifts, sales, vendor_purchases, vendor_payments, vendor_returns,
                   personal_transactions, vendors, today>>

AddPurchase(purchase_data, created_by) ==
    /\ purchase_data.shift_id \in ShiftIds
    /\ vendor_purchases' = Insert(vendor_purchases, Stamped(purchase_data, created_by))
    /\ result' = Added("Purchase added.")
    /\ UNCHANGED <<shifts, sales, expenses, vendor_payments, vendor_returns,
                   personal_transactions, today>>
    /\ BalanceTrigger

AddPayment(payment_data, created_by) ==
    /\ payment_data.shift_id \in ShiftIds
    /\ vendor_payments' = Insert(vendor_payments, Stamped(payment_data, created_by))
    /\ result' = Added("Payment added.")
    /\ UNCHANGED <<shifts, sales, expenses, vendor_purchases, vendor_returns,
                   personal_transactions, today>>
    /\ BalanceTrigger

AddReturn(return_data, created_by) ==
    /\ return_data.shift_id \in ShiftIds
    /\ vendor_returns' = Insert(vendor_returns, Stamped(return_data, created_by))
    /\ result' = Added("Return recorded. Vendor balance reduced.")
    /\ UNCHANGED <<shifts, sales, expenses, vendor_purchases, vendor_payments,
                   personal_transactions, today>>
    /\ BalanceTrigger

AddTransaction(trans_data, created_by) ==
    /\ trans_data.shift_id \in ShiftIds
    /\ personal_transactions' = Insert(personal_transactions, Stamped(trans_data, created_by))
    /\ result' = Added(trans_data.transaction_type)
    /\ UNCHANGED <<shifts, sales, expenses, vendor_purchases, vendor_payments,
                   vendor_returns, vendors, today>>

\* ------------------------------------------- shift calls, one at a time
\* Each call runs from its first store call to its last with no other call
\* in between; no session is inside a method.
Next ==
    \/ \E T \in ShiftTypes, u \in UserIds :
          /\ GetCurrentShift(T) # {} \/ Len(shifts) < MaxShifts
          /\ OpenShift(T, u)
          /\ UNCHANGED session
    \/ \E id \in 1..(MaxShifts + 1), c \in ClosingCashInputs, u \in UserIds :
          CloseShift(id, c, u) /\ UNCHANGED session

Spec == Init /\ [][Next]_vars

\* ------------------------- cash reconciliation: transactions and closes
\* One episode of each of two shift types, with the transactions tagged
\* with them, all calls made by one user.
CashShiftTypes == {"Morning", "Evening"}

NextCash ==
    \/ \E T \in CashShiftTypes :
          /\ \A i \in ShiftIds : shifts[i].shift_name # T
          /\ OpenShift(T, 1)
          /\ UNCHANGED session
    \/ \E id \in ShiftIds, c \in ClosingCashInputs : CloseShift(id, c, 1) /\ UNCHANGED session
    \/ \E id \in ShiftIds, a \in Amounts : 
          TxCount < MaxTx /\ AddSale([shift_id |-> id, amount |-> a], 1) /\ UNCHANGED session
    \/ \E id \in ShiftIds, a \in Amounts : 
          TxCount < MaxTx /\ AddExpense([shift_id |-> id, amount |-> a], 1) /\ UNCHANGED session
    \/ \E id \in ShiftIds, a \in Amounts : 
          TxCount < MaxTx /\ AddPurchase([shift_id |-> id, amount |-> a], 1) /\ UNCHANGED session
    \/ \E id \in ShiftIds, a \in Amounts : 
          TxCount < MaxTx /\ AddPayment([shift_id |-> id, amount |-> a], 1) /\ UNCHANGED session
    \/ \E id \in ShiftIds, a \in Amounts : 
          TxCount < MaxTx /\ AddReturn([shift_id |-> id, amount |-> a], 1) /\ UNCHANGED session
    \/ \E id \in ShiftIds, a \in Amounts, t \in PersonalTypes :
          /\ TxCount < MaxTx
          /\ AddTransaction([shift_id |-> id, amount |-> a, transaction_type |-> t], 1)
          /\ UNCHANGED session

SpecCash == Init /\ [][NextCash]_vars

\* ================================================== concurrent sessions
\* Each store call of a manager method is one step of the session running
\* it; between two store calls of one session the other session may run.
Return(s, r) ==
    /\ pc' = [pc EXCEPT ![s] = "idle"]
    /\ loc' = [loc EXCEPT ![s] = LocIdle]
    /\ result' = r

Goto(s, label, l) ==
    /\ pc' = [pc EXCEPT ![s] = label]
    /\ loc' = [loc EXCEPT ![s] = l]
    /\ UNCHANGED result

\* open_shift, first store call: get_current_shift; the method returns at
\* once when a shift of the type is open
OpenShiftCheck(s, shift_name, opened_by) ==
    /\ pc[s] = "idle"
    /\ IF GetCurrentShift(shift_name) # {}
       THEN Return(s, AlreadyOpen)
       ELSE Goto(s, "open_insert", [LocIdle EXCEPT !.shift_name = shift_name, !.actor = opened_by])
    /\ UNCHANGED <<shifts, tables, vendors, today>>

\* open_shift, second store call: the insert
OpenShiftInsert(s) ==
    /\ pc[s] = "open_insert"
    /\ shifts' = Append(shifts, NewShiftRow(loc[s].shift_name, loc[s].actor))
    /\ Return(s, Opened(Len(shifts) + 1))
    /\ UNCHANGED <<tables, vendors, today>>

\* close_shift, first store call: select the shift row by id
CloseShiftSelect(s, shift_id, closing_cash, closed_by) ==
    /\ pc[s] = "idle"
    /\ IF shift_id \notin ShiftIds
       THEN Return(s, NotFound)
       ELSE Goto(s, "calc_opening", [LocIdle EXCEPT !.shift_id = shift_id,
                                                     !.closing_cash = closing_cash,
                                                     !.actor = closed_by])
    /\ UNCHANGED <<shifts, tables, vendors, today>>

\* calculate_expected_cash: six store reads, one step each
CalcOpening(s) ==
    /\ pc[s] = "calc_opening"
    /\ Goto(s, "calc_sales", [loc[s] EXCEPT !.opening = ReadOpening(loc[s].shift_id)])
    /\ UNCHANGED <<shifts, tables, vendors, today>>

CalcSales(s) ==
    /\ pc[s] = "calc_sales"
    /\ Goto(s, "calc_expenses", [loc[s] EXCEPT !.sales = ReadSales(loc[s].shift_id)])
    /\ UNCHANGED <<shifts, tables, vendors, today>>

CalcExpenses(s) ==
    /\ pc[s] = "calc_expenses"
    /\ Goto(s, "calc_payments", [loc[s] EXCEPT !.expenses = ReadExpenses(loc[s].shift_id)])
    /\ UNCHANGED <<shifts, tables, vendors, today>>

CalcPayments(s) ==
    /\ pc[s] = "calc_payments"
    /\ Goto(s, "calc_withdrawals", [loc[s] EXCEPT !.payments = ReadPayments(loc[s].shift_id)])
    /\ UNCHANGED <<shifts, tables, vendors, today>>

CalcWithdrawals(s) ==
    /\ pc[s] = "calc_withdrawals"
    /\ Goto(s, "calc_investments", [loc[s] EXCEPT !.withdrawals = ReadWithdrawals(loc[s].shift_id)])
    /\ UNCHANGED <<shifts, tables, vendors, today>>

CalcInvestments(s) ==
    /\ pc[s] = "calc_investments"
    /\ Goto(s, "close_update", [loc[s] EXCEPT !.investments = ReadInvestments(loc[s].shift_id)])
    /\ UNCHANGED <<shifts, tables, vendors, today>>

\* close_shift, last store call: the update of the row
CloseShiftUpdate(s) ==
    /\ pc[s] = "close_update"
    /\ shifts' = [shifts EXCEPT ![loc[s].shift_id] =
                     ClosedRow(shifts[loc[s].shift_id], loc[s].closing_cash,
                               ExpectedCash(loc[s]), loc[s].actor)]
    /\ Return(s, Closed(loc[s].shift_id))
    /\ UNCHANGED <<tables, vendors, today>>

\* ------------------------------------------------------ sales entry page
ShiftRoles == {"Morning User", "Evening User", "Night User"}

\* get_shifts_in_date_range(start, end) without a user: ids of the rows
\* opened between the two dates
GetShiftsInDateRange(start_date, end_date) ==
    {i \in ShiftIds : start_date <= shifts[i].opening_date /\ shifts[i].opening_date <= end_date}

\* the shift ids the page can tag a sale with for this user
EntryShiftChoices(user) ==
    IF user.role \in ShiftRoles
    THEN GetCurrentShift(user.shift)
    ELSE {i \in GetShiftsInDateRange(today, today) : shifts[i].status = "open"}

\* show_sales_entry up to the form: the page's store read fixes shift_id
\* (nothing is shown, and nothing can be submitted, when there is none)
SalesEntrySelect(s, user) ==
    /\ pc[s] = "idle"
    /\ \E id \in EntryShiftChoices(user) :
          Goto(s, "sales_form", [LocIdle EXCEPT !.shift_id = id, !.actor = user.id])
    /\ UNCHANGED <<shifts, tables, vendors, today>>

\* the form's submit: amounts <= 0 are refused, the others go to add_sale
SalesEntrySubmit(s, amount) ==
    /\ pc[s] = "sales_form"
    /\ IF amount <= 0
       THEN /\ Return(s, Result(FALSE, "Amount must be > 0.", Null))
            /\ UNCHANGED <<shifts, tables, vendors, today>>
       ELSE /\ AddSale([shift_id |-> loc[s].shift_id, amount |-> amount], loc[s].actor)
            /\ pc' = [pc EXCEPT ![s] = "idle"]
            /\ loc' = [loc EXCEPT ![s] = LocIdle]

\* the users of the two sessions: a shift user and a non-shift user
ConcUsers == {[id |-> 1, role |-> "Morning User", shift |-> "Morning"],
              [id |-> 2, role |-> "Super User", shift |-> "none"]}

ConcShiftTypes == {"Morning"}

SessionStep(s) ==
    \/ \E T \in ConcShiftTypes : OpenShiftCheck(s, T, 1)
    \/ Len(shifts) < MaxShifts /\ OpenShiftInsert(s)
    \/ \E id \in 1..(MaxShifts + 1) : CloseShiftSelect(s, id, OPENING_CASH, 1)
    \/ CalcOpening(s)
    \/ CalcSales(s)
    \/ CalcExpenses(s)
    \/ CalcPayments(s)
    \/ CalcWithdrawals(s)
    \/ CalcInvestments(s)
    \/ CloseShiftUpdate(s)
    \/ \E user \in ConcUsers : SalesEntrySelect(s, user)
    \/ \E a \in {0, 1} : TxCount < MaxTx /\ SalesEntrySubmit(s, a)

NextConc == \E s \in Sessions : SessionStep(s)

SpecConc == Init /\ [][NextConc]_vars

\* ========================================================= VendorManager
Roles == {"Morning User", "Evening User", "Night User", "Accountant", "Owner", "Super User"}

VendorIds == {1, 2}
OpeningBalances == {0, 5}
Dates == {1, 2}

CreateVendor_ZeroBalance(vendor_data, created_by) ==
    /\ vendors' = Append(vendors, [opening_balance |-> vendor_data.opening_balance,
                                   current_balance |-> 0,
                                   is_active |-> TRUE])
    /\ result' = Added("Vendor created.")
    /\ UNCHANGED <<shifts, tables, today>>

\* create_vendor: current_balance starts at opening_balance; the row is
\* inserted without is_active, and the new vendor is listed among the
\* active ones (show_vendor_ledger), so the column defaults to true
CreateVendor(vendor_data, created_by) ==
    /\ vendors' = Append(vendors, [opening_balance |-> vendor_data.opening_balance,
                                   current_balance |-> vendor_data.opening_balance,
                                   is_active |-> TRUE])
    /\ result' = Added("Vendor created.")
    /\ UNCHANGED <<shifts, tables, today>>

\* a table after update(data).eq('id', id of row): the columns of data
\* replace those of the one row; no row with the id, no change
Update(table, row, data) ==
    IF BagIn(row, table)
    THEN (table (-) SetToBag({row})) (+) SetToBag({data @@ row})
    ELSE table

\* a table after delete().eq('id', id of row)
Delete(table, row) == table (-) SetToBag({row})

UpdatePurchase(row, purchase_data) ==
    /\ vendor_purchases' = Update(vendor_purchases, row, purchase_data)
    /\ result' = Added("Purchase updated.")
    /\ UNCHANGED <<shifts, sales, expenses, vendor_payments, vendor_returns,
                   personal_transactions, today>>
    /\ BalanceTrigger

UpdatePayment(row, payment_data) ==
    /\ vendor_payments' = Update(vendor_payments, row, payment_data)
    /\ result' = Added("Payment updated.")
    /\ UNCHANGED <<shifts, sales, expenses, vendor_purchases, vendor_returns,
                   personal_transactions, today>>
    /\ BalanceTrigger

UpdateReturn(row, return_data) ==
    /\ vendor_returns' = Update(vendor_returns, row, return_data)
    /\ result' = Added("Return updated.")
    /\ UNCHANGED <<shifts, sales, expenses, vendor_purchases, vendor_payments,
                   personal_transactions, today>>
    /\ BalanceTrigger

DeleteRoles_WithAccountant == {"Super User", "Owner", "Accountant"}

DeleteRoles == {"Super User", "Owner"}

PermissionDenied == Result(FALSE, "Permission denied.", Null)

DeletePurchase(row, user_role) ==
    /\ IF user_role \notin DeleteRoles
       THEN /\ result' = PermissionDenied
            /\ UNCHANGED vendor_purchases
       ELSE /\ vendor_purchases' = Delete(vendor_purchases, row)
            /\ result' = Added("Purchase deleted.")
    /\ UNCHANGED <<shifts, sales, expenses, vendor_payments, vendor_returns,
                   personal_transactions, today>>
    /\ BalanceTrigger

DeletePayment(row, user_role) ==
    /\ IF user_role \notin DeleteRoles
       THEN /\ result' = PermissionDenied
            /\ UNCHANGED vendor_payments
       ELSE /\ vendor_payments' = Delete(vendor_payments, row)
            /\ result' = Added("Payment deleted.")
    /\ UNCHANGED <<shifts, sales, expenses, vendor_purchases, vendor_returns,
                   personal_transactions, today>>
    /\ BalanceTrigger

DeleteReturn(row, user_role) ==
    /\ IF user_role \notin DeleteRoles
       THEN /\ result' = PermissionDenied
            /\ UNCHANGED vendor_returns
       ELSE /\ vendor_returns' = Delete(vendor_returns, row)
            /\ result' = Added("Return deleted.")
    /\ UNCHANGED <<shifts, sales, expenses, vendor_purchases, vendor_payments,
                   personal_transactions, today>>
    /\ BalanceTrigger

TableNames == {"sales", "expenses", "vendor_purchases", "vendor_payments", "vendor_returns",
               "personal_transactions"}

\* VendorManager.delete_transaction: deletes from the table it is given
DeleteVendorTransaction(table, row, user_role) ==
    /\ IF user_role \notin DeleteRoles
       THEN /\ result' = PermissionDenied
            /\ UNCHANGED tables
       ELSE /\ sales' = IF table = "sales" THEN Delete(sales, row) ELSE sales
            /\ expenses' = IF table = "expenses" THEN Delete(expenses, row) ELSE expenses
            /\ vendor_purchases' = IF table = "vendor_purchases"
                                   THEN Delete(vendor_purchases, row) ELSE vendor_purchases
            /\ vendor_payments' = IF table = "vendor_payments"
                                  THEN Delete(vendor_payments, row) ELSE vendor_payments
            /\ vendor_returns' = IF table = "vendor_returns"
                                 THEN Delete(vendor_returns, row) ELSE vendor_returns
            /\ personal_transactions' = IF table = "personal_transactions"
                                        THEN Delete(personal_transactions, row)
                                        ELSE personal_transactions
            /\ result' = Added("Transaction deleted.")
    /\ UNCHANGED <<shifts, today>>
    /\ BalanceTrigger

\* ------------------------------------------------------ get_vendor_ledger
\* The three selects: the vendor's rows dated inside [start_date, end_date].
SelectPurchases_BeforeEnd(vendor_id, start_date, end_date) ==
    [r \in {x \in BagToSet(vendor_purchases) :
               /\ x.vendor_id = vendor_id
               /\ x.purchase_date >= start_date
               /\ x.purchase_date < end_date} |-> vendor_purchases[r]]

SelectPurchases(vendor_id, start_date, end_date) ==
    [r \in {x \in BagToSet(vendor_purchases) :
               /\ x.vendor_id = vendor_id
               /\ x.purchase_date >= start_date
               /\ x.purchase_date <= end_date} |-> vendor_purchases[r]]

SelectPayments(vendor_id, start_date, end_date) ==
    [r \in {x \in BagToSet(vendor_payments) :
               /\ x.vendor_id = vendor_id
               /\ x.payment_date >= start_date
               /\ x.payment_date <= end_date} |-> vendor_payments[r]]

SelectReturns(vendor_id, start_date, end_date) ==
    [r \in {x \in BagToSet(vendor_returns) :
               /\ x.vendor_id = vendor_id
               /\ x.return_date >= start_date
               /\ x.return_date <= end_date} |-> vendor_returns[r]]

\* A select without an order clause returns its rows in an order the store
\* chooses: every order of the rows is a possible .data list.
RECURSIVE Orders(_)
Orders(rows) ==
    IF BagToSet(rows) = {} THEN {<< >>}
    ELSE UNION {{<<r>> \o t : t \in Orders(rows (-) SetToBag({r}))} : r \in BagToSet(rows)}

PurchaseEntry(p) ==
    [date |-> p.purchase_date, type |-> "Purchase", debit |-> p.amount, credit |-> 0]

PaymentEntry(p) ==
    [date |-> p.payment_date, type |-> "Payment", debit |-> 0, credit |-> p.amount]

ReturnEntry_AsDebit(r) ==
    [date |-> r.return_date, type |-> "Return", debit |-> r.amount, credit |-> 0]

ReturnEntry(r) ==
    [date |-> r.return_date, type |-> "Return", debit |-> 0, credit |-> r.amount]

\* the ledger list before the sort: purchases, then payments, then returns
Entries(purchases, payments, returns) ==
    [i \in 1..Len(purchases) |-> PurchaseEntry(purchases[i])]
    \o [i \in 1..Len(payments) |-> PaymentEntry(payments[i])]
    \o [i \in 1..Len(returns) |-> ReturnEntry(returns[i])]

\* ledger.sort(key=date): ascending and stable, entries of one date keep
\* the order they were appended in
InsertByDate(sorted, e) ==
    LET k == Cardinality({i \in 1..Len(sorted) : sorted[i].date <= e.date})
    IN SubSeq(sorted, 1, k) \o <<e>> \o SubSeq(sorted, k + 1, Len(sorted))

RECURSIVE SortByDate(_)
SortByDate(ledger) ==
    IF ledger = << >> THEN << >>
    ELSE InsertByDate(SortByDate(SubSeq(ledger, 1, Len(ledger) - 1)), ledger[Len(ledger)])

ReadOpeningBalance(vendor_id) ==
    IF vendor_id \in DOMAIN vendors THEN vendors[vendor_id].opening_balance ELSE 0

RECURSIVE WithBalance_CreditAdded(_, _)
WithBalance_CreditAdded(ledger, balance) ==
    IF ledger = << >> THEN << >>
    ELSE LET b == balance - ledger[1].debit + ledger[1].credit
         IN <<[balance |-> b] @@ ledger[1]>> \o WithBalance_CreditAdded(Tail(ledger), b)

\* the pass that sets entry['balance'], starting from balance
RECURSIVE WithBalance(_, _)
WithBalance(ledger, balance) ==
    IF ledger = << >> THEN << >>
    ELSE LET b == balance + ledger[1].debit - ledger[1].credit
         IN <<[balance |-> b] @@ ledger[1]>> \o WithBalance(Tail(ledger), b)

Reverse_Kept(seq) == seq

\* ledger.reverse()
Reverse(seq) == [i \in 1..Len(seq) |-> seq[Len(seq) + 1 - i]]

\* get_vendor_ledger: the lists it may return for the store as it is
GetVendorLedger(vendor_id, start_date, end_date) ==
    {Reverse(WithBalance(SortByDate(Entries(ps, ys, rs)), ReadOpeningBalance(vendor_id))) :
        ps \in Orders(SelectPurchases(vendor_id, start_date, end_date)),
        ys \in Orders(SelectPayments(vendor_id, start_date, end_date)),
        rs \in Orders(SelectReturns(vendor_id, start_date, end_date))}

\* show_vendor_ledger: the page asks for a vendor's ledger over a window;
\* the list get_vendor_ledger returns is kept in data
ShowVendorLedger(vendor_id, start_date, end_date) ==
    /\ \E ledger \in GetVendorLedger(vendor_id, start_date, end_date) :
          result' = Result(TRUE, "ledger", ledger)
    /\ UNCHANGED <<shifts, tables, vendors, today>>

\* ------------------------------- vendor accounts: calls, one write each
\* Every handler of the vendor pages makes one store write, so the calls of
\* concurrent sessions interleave as whole calls.
VendorRoles == {"Super User", "Accountant"}

NextVendor ==
    \/ shifts = << >> /\ OpenShift("Morning", 1) /\ UNCHANGED session
    \/ \E ob \in OpeningBalances :
          /\ Len(vendors) + 1 \in VendorIds
          /\ CreateVendor([opening_balance |-> ob], 1)
          /\ UNCHANGED session
    \/ \E v \in DOMAIN vendors, d \in Dates, a \in Amounts :
          /\ TxCount < MaxTx
          /\ AddPurchase([shift_id |-> 1, vendor_id |-> v, purchase_date |-> d, amount |-> a], 1)
          /\ UNCHANGED session
    \/ \E v \in DOMAIN vendors, d \in Dates, a \in Amounts :
          /\ TxCount < MaxTx
          /\ AddPayment([shift_id |-> 1, vendor_id |-> v, payment_date |-> d, amount |-> a], 1)
          /\ UNCHANGED session
    \/ \E v \in DOMAIN vendors, d \in Dates, a \in Amounts :
          /\ TxCount < MaxTx
          /\ AddReturn([shift_id |-> 1, vendor_id |-> v, return_date |-> d, amount |-> a], 1)
          /\ UNCHANGED session
    \/ \E row \in BagToSet(vendor_purchases), d \in Dates, a \in Amounts :
          UpdatePurchase(row, [amount |-> a, purchase_date |-> d]) /\ UNCHANGED session
    \/ \E row \in BagToSet(vendor_payments), d \in Dates, a \in Amounts :
          UpdatePayment(row, [amount |-> a, payment_date |-> d]) /\ UNCHANGED session
    \/ \E row \in BagToSet(vendor_returns), d \in Dates, a \in Amounts :
          UpdateReturn(row, [amount |-> a, return_date |-> d]) /\ UNCHANGED session
    \/ \E row \in BagToSet(vendor_purchases), role \in VendorRoles :
          DeletePurchase(row, role) /\ UNCHANGED session
    \/ \E row \in BagToSet(vendor_payments), role \in VendorRoles :
          DeletePayment(row, role) /\ UNCHANGED session
    \/ \E row \in BagToSet(vendor_returns), role \in VendorRoles :
          DeleteReturn(row, role) /\ UNCHANGED session
    \/ \E table \in {"vendor_purchases", "vendor_payments", "vendor_returns"},
          role \in VendorRoles :
          \E row \in BagToSet(CASE table = "vendor_purchases" -> vendor_purchases
                                 [] table = "vendor_payments" -> vendor_payments
                                 [] OTHER -> vendor_returns) :
             DeleteVendorTransaction(table, row, role) /\ UNCHANGED session
    \/ \E v \in DOMAIN vendors, s \in Dates, e \in Dates :
          ShowVendorLedger(v, s, e) /\ UNCHANGED session

SpecVendor == Init /\ [][NextVendor]_vars

\* ===================================================== other managers
DeleteSale(row, user_role) ==
    /\ IF user_role \notin DeleteRoles
       THEN /\ result' = PermissionDenied
            /\ UNCHANGED sales
       ELSE /\ sales' = Delete(sales, row)
            /\ result' = Added("Sale deleted.")
    /\ UNCHANGED <<shifts, expenses, vendor_purchases, vendor_payments, vendor_returns,
                   personal_transactions, vendors, today>>

DeleteExpense(row, user_role) ==
    /\ IF user_role \notin DeleteRoles
       THEN /\ result' = PermissionDenied
            /\ UNCHANGED expenses
       ELSE /\ expenses' = Delete(expenses, row)
            /\ result' = Added("Expense deleted.")
    /\ UNCHANGED <<shifts, sales, vendor_purchases, vendor_payments, vendor_returns,
                   personal_transactions, vendors, today>>

\* PersonalLedgerManager.delete_transaction
DeletePersonalTransaction(row, user_role) ==
    /\ IF user_role \notin DeleteRoles
       THEN /\ result' = PermissionDenied
            /\ UNCHANGED personal_transactions
       ELSE /\ personal_transactions' = Delete(personal_transactions, row)
            /\ result' = Added("Transaction deleted.")
    /\ UNCHANGED <<shifts, sales, expenses, vendor_purchases, vendor_payments,
                   vendor_returns, vendors, today>>

CanEditShift_OwnerToo(user, target_shift) ==
    IF user.role = "Super User" \/ user.role = "Accountant" \/ user.role = "Owner" THEN TRUE
    ELSE IF user.role \in {"Morning User", "Evening User", "Night User"}
         THEN user.shift = target_shift
         ELSE FALSE

\* UserManager.can_edit_shift
CanEditShift(user, target_shift) ==
    IF user.role = "Super User" \/ user.role = "Accountant" THEN TRUE
    ELSE IF user.role \in {"Morning User", "Evening User", "Night User"}
         THEN user.shift = target_shift
         ELSE FALSE

\* a call of can_edit_shift; the answer is kept in success, the arguments
\* in data
CheckCanEditShift(user, target_shift) ==
    /\ result' = Result(CanEditShift(user, target_shift), "can_edit_shift",
                        <<user.role, user.shift, target_shift>>)
    /\ UNCHANGED <<shifts, tables, vendors, today>>

\* ------------------------------ the managers' methods called directly
\* Any caller of the managers (a page, or another front end of backend.py)
\* may pass any role, any amount and any actor.
ApiAmounts == {0, 1}

\* one user of every role, and a shift user looking at another shift
EditUsers ==
    {[role |-> "Super User", shift |-> "none"],
     [role |-> "Owner", shift |-> "none"],
     [role |-> "Accountant", shift |-> "none"],
     [role |-> "Morning User", shift |-> "Morning"],
     [role |-> "Evening User", shift |-> "Evening"],
     [role |-> "Night User", shift |-> "Night"]}

NextApi ==
    \/ shifts = << >> /\ OpenShift("Morning", 1) /\ UNCHANGED session
    \/ \E a \in ApiAmounts :
          TxCount < MaxTx /\ AddSale([shift_id |-> 1, amount |-> a], 1) /\ UNCHANGED session
    \/ \E a \in ApiAmounts :
          TxCount < MaxTx /\ AddExpense([shift_id |-> 1, amount |-> a], 1) /\ UNCHANGED session
    \/ \E a \in ApiAmounts :
          TxCount < MaxTx /\ AddPurchase([shift_id |-> 1, amount |-> a], 1) /\ UNCHANGED session
    \/ \E a \in ApiAmounts :
          TxCount < MaxTx /\ AddPayment([shift_id |-> 1, amount |-> a], 1) /\ UNCHANGED session
    \/ \E a \in ApiAmounts :
          TxCount < MaxTx /\ AddReturn([shift_id |-> 1, amount |-> a], 1) /\ UNCHANGED session
    \/ \E a \in ApiAmounts, t \in PersonalTypes, user \in ConcUsers :
          /\ TxCount < MaxTx
          /\ AddTransaction([shift_id |-> 1, amount |-> a, transaction_type |-> t], user.id)
          /\ UNCHANGED session
    \/ \E row \in BagToSet(sales), role \in Roles :
          DeleteSale(row, role) /\ UNCHANGED session
    \/ \E row \in BagToSet(expenses), role \in Roles :
          DeleteExpense(row, role) /\ UNCHANGED session
    \/ \E row \in BagToSet(vendor_purchases), role \in Roles :
          DeletePurchase(row, role) /\ UNCHANGED session
    \/ \E row \in BagToSet(vendor_payments), role \in Roles :
          DeletePayment(row, role) /\ UNCHANGED session
    \/ \E row \in BagToSet(vendor_returns), role \in Roles :
          DeleteReturn(row, role) /\ UNCHANGED session
    \/ \E table \in {"vendor_purchases", "vendor_payments", "vendor_returns"}, role \in Roles :
          \E row \in BagToSet(CASE table = "vendor_purchases" -> vendor_purchases
                                 [] table = "vendor_payments" -> vendor_payments
                                 [] OTHER -> vendor_returns) :
             DeleteVendorTransaction(table, row, role) /\ UNCHANGED session
    \/ \E row \in BagToSet(personal_transactions), role \in Roles :
          DeletePersonalTransaction(row, role) /\ UNCHANGED session
    \/ \E user \in EditUsers, T \in ShiftTypes :
          CheckCanEditShift(user, T) /\ UNCHANGED session

SpecApi == Init /\ [][NextApi]_vars

\* ======================================================= update methods
UpdateSale_Revalidating(row, sale_data) ==
    /\ sales' = Update(sales, row, sale_data)
    /\ shifts' = [i \in DOMAIN shifts |->
                    IF i = row.shift_id /\ shifts[i].status = "closed"
                    THEN [shifts[i] EXCEPT
                             !.expected_cash = Some(@[1] + sale_data.amount - row.amount)]
                    ELSE shifts[i]]
    /\ result' = Added("Sale updated.")
    /\ UNCHANGED <<expenses, vendor_purchases, vendor_payments, vendor_returns,
                   personal_transactions, vendors, today>>

UpdateSale(row, sale_data) ==
    /\ sales' = Update(sales, row, sale_data)
    /\ result' = Added("Sale updated.")
    /\ UNCHANGED <<shifts, expenses, vendor_purchases, vendor_payments, vendor_returns,
                   personal_transactions, vendors, today>>

UpdateExpense(row, expense_data) ==
    /\ expenses' = Update(expenses, row, expense_data)
    /\ result' = Added("Expense updated.")
    /\ UNCHANGED <<shifts, sales, vendor_purchases, vendor_payments, vendor_returns,
                   personal_transactions, vendors, today>>

\* PersonalLedgerManager.update_transaction
UpdateTransaction(row, trans_data) ==
    /\ personal_transactions' = Update(personal_transactions, row, trans_data)
    /\ result' = Added("Transaction updated.")
    /\ UNCHANGED <<shifts, sales, expenses, vendor_purchases, vendor_payments,
                   vendor_returns, vendors, today>>

\* ================================================================ pages
\* A page run from its first line to the end of a form's submit handler,
\* with no other session in between.  The inputs of a run are the logged-in
\* user, the choices made in the page's select boxes and the form's fields.
AmountError == Result(FALSE, "Amount must be > 0.", Null)

\* the roles whose menu holds the vendor pages, and the roles the personal
\* ledger page lets in
VendorPageRoles == {"Super User", "Owner", "Accountant"}
PersonalPageRoles == {"Super User", "Owner"}

\* get_all_vendors(include_inactive=False): ids of the active vendors
ActiveVendors == {v \in DOMAIN vendors : vendors[v].is_active}

\* show_sales_entry, form sales_form
RecordSale(user, shift_id, amount, sale_date) ==
    /\ shift_id \in EntryShiftChoices(user)
    /\ IF amount <= 0
       THEN /\ result' = AmountError
            /\ UNCHANGED <<shifts, tables, vendors, today>>
       ELSE AddSale([shift_id |-> shift_id, sale_date |-> sale_date, amount |-> amount],
                    user.id)

\* show_expense_entry, form expense_form
RecordExpense(user, shift_id, amount, expense_date) ==
    /\ shift_id \in EntryShiftChoices(user)
    /\ IF amount <= 0
       THEN /\ result' = AmountError
            /\ UNCHANGED <<shifts, tables, vendors, today>>
       ELSE AddExpense([shift_id |-> shift_id, expense_date |-> expense_date,
                        amount |-> amount], user.id)

\* show_vendor_ledger, forms purchase_form, payment_form and return_form
RecordPurchase(user, vendor_id, shift_id, amount, purchase_date) ==
    /\ user.role \in VendorPageRoles
    /\ vendor_id \in ActiveVendors
    /\ shift_id \in EntryShiftChoices(user)
    /\ IF amount <= 0
       THEN /\ result' = AmountError
            /\ UNCHANGED <<shifts, tables, vendors, today>>
       ELSE AddPurchase([shift_id |-> shift_id, vendor_id |-> vendor_id,
                         purchase_date |-> purchase_date, amount |-> amount], user.id)

RecordPayment(user, vendor_id, shift_id, amount, payment_date) ==
    /\ user.role \in VendorPageRoles
    /\ vendor_id \in ActiveVendors
    /\ shift_id \in EntryShiftChoices(user)
    /\ IF amount <= 0
       THEN /\ result' = AmountError
            /\ UNCHANGED <<shifts, tables, vendors, today>>
       ELSE AddPayment([shift_id |-> shift_id, vendor_id |-> vendor_id,
                        payment_date |-> payment_date, amount |-> amount], user.id)

RecordReturn(user, vendor_id, shift_id, amount, return_date) ==
    /\ user.role \in VendorPageRoles
    /\ vendor_id \in ActiveVendors
    /\ shift_id \in EntryShiftChoices(user)
    /\ IF amount <= 0
       THEN /\ result' = AmountError
            /\ UNCHANGED <<shifts, tables, vendors, today>>
       ELSE AddReturn([shift_id |-> shift_id, vendor_id |-> vendor_id,
                       return_date |-> return_date, amount |-> amount], user.id)

\* show_personal_ledger, forms withdrawal and investment
RecordPersonal(user, shift_id, transaction_type, amount, transaction_date) ==
    /\ user.role \in PersonalPageRoles
    /\ shift_id \in EntryShiftChoices(user)
    /\ IF amount <= 0
       THEN /\ result' = AmountError
            /\ UNCHANGED <<shifts, tables, vendors, today>>
       ELSE AddTransaction([shift_id |-> shift_id, transaction_type |-> transaction_type,
                            transaction_date |-> transaction_date, amount |-> amount],
                           user.id)

\* midnight: date.today() moves on
AdvanceDay ==
    /\ today + 1 \in Dates
    /\ today' = today + 1
    /\ UNCHANGED <<shifts, tables, vendors, result>>

\* ------------------------------------------------------------- my shift
GetShiftSummary_PurchasesAsPayments(shift_id) ==
    [sales |-> SumAmount(EqShiftId(sales, shift_id)),
     expenses |-> SumAmount(EqShiftId(expenses, shift_id)),
     vendor_purchases |-> SumAmount(EqShiftId(vendor_purchases, shift_id)),
     vendor_payments |-> SumAmount(EqShiftId(vendor_purchases, shift_id)),
     withdrawals |-> SumAmount(EqType(EqShiftId(personal_transactions, shift_id),
                                      "withdrawal")),
     investments |-> SumAmount(NotWithdrawal(EqShiftId(personal_transactions, shift_id)))]

\* get_shift_summary: in its loop over the shift's personal transactions a
\* row that is not a withdrawal is added to investments
GetShiftSummary(shift_id) ==
    [sales |-> SumAmount(EqShiftId(sales, shift_id)),
     expenses |-> SumAmount(EqShiftId(expenses, shift_id)),
     vendor_purchases |-> SumAmount(EqShiftId(vendor_purchases, shift_id)),
     vendor_payments |-> SumAmount(EqShiftId(vendor_payments, shift_id)),
     withdrawals |-> SumAmount(EqType(EqShiftId(personal_transactions, shift_id),
                                      "withdrawal")),
     investments |-> SumAmount(NotWithdrawal(EqShiftId(personal_transactions, shift_id)))]

\* show_my_shift with an open shift of the user's type: the page reads the
\* summary and the expected cash of that shift
ShowMyShift(user) ==
    /\ user.role \in ShiftRoles
    /\ \E id \in GetCurrentShift(user.shift) :
          result' = Result(TRUE, "my shift",
                           <<id, GetShiftSummary(id), CalculateExpectedCash(id)>>)
    /\ UNCHANGED <<shifts, tables, vendors, today>>

\* ------------------------------------------- entry pages over two days
\* One episode of each of two shift types; the day changes, and the two
\* users record through the four entry pages, dating every entry today.
EntryShiftTypes == {"Morning", "Evening"}

NextEntry ==
    \/ \E T \in EntryShiftTypes :
          /\ \A i \in ShiftIds : shifts[i].shift_name # T
          /\ OpenShift(T, 1)
          /\ UNCHANGED session
    \/ \E id \in ShiftIds : CloseShift(id, OPENING_CASH, 1) /\ UNCHANGED session
    \/ AdvanceDay /\ UNCHANGED session
    \/ vendors = << >> /\ CreateVendor([opening_balance |-> 0], 2) /\ UNCHANGED session
    \/ \E user \in ConcUsers, id \in ShiftIds, a \in ApiAmounts :
          TxCount < MaxTx /\ RecordSale(user, id, a, today) /\ UNCHANGED session
    \/ \E user \in ConcUsers, id \in ShiftIds, a \in ApiAmounts :
          TxCount < MaxTx /\ RecordExpense(user, id, a, today) /\ UNCHANGED session
    \/ \E user \in ConcUsers, id \in ShiftIds, a \in ApiAmounts :
          TxCount < MaxTx /\ RecordPurchase(user, 1, id, a, today) /\ UNCHANGED session
    \/ \E user \in ConcUsers, id \in ShiftIds, a \in ApiAmounts :
          TxCount < MaxTx /\ RecordPayment(user, 1, id, a, today) /\ UNCHANGED session
    \/ \E user \in ConcUsers, id \in ShiftIds, a \in ApiAmounts :
          TxCount < MaxTx /\ RecordReturn(user, 1, id, a, today) /\ UNCHANGED session
    \/ \E user \in ConcUsers, id \in ShiftIds, a \in ApiAmounts, t \in PersonalTypes :
          TxCount < MaxTx /\ RecordPersonal(user, id, t, a, today) /\ UNCHANGED session
    \/ \E user \in ConcUsers : ShowMyShift(user) /\ UNCHANGED session

SpecEntry == Init /\ [][NextEntry]_vars

\* ------------------------------------------------------------ edit forms
\* Each edit form lists the stored rows, takes the amount and the date (and
\* the type of a personal transaction) and sends them to the update
\* method.  The forms sit below the shift choice of their page, which
\* returns before them when the user has no shift to choose.
EditSale_Retagging(user, row, amount, sale_date) ==
    /\ EntryShiftChoices(user) # {}
    /\ BagIn(row, sales)
    /\ IF amount <= 0
       THEN /\ result' = AmountError
            /\ UNCHANGED <<shifts, tables, vendors, today>>
       ELSE UpdateSale(row, [shift_id |-> CHOOSE i \in EntryShiftChoices(user) :
                                             \A j \in EntryShiftChoices(user) : j <= i,
                             amount |-> amount, sale_date |-> sale_date])

EditSale(user, row, amount, sale_date) ==
    /\ EntryShiftChoices(user) # {}
    /\ BagIn(row, sales)
    /\ IF amount <= 0
       THEN /\ result' = AmountError
            /\ UNCHANGED <<shifts, tables, vendors, today>>
       ELSE UpdateSale(row, [amount |-> amount, sale_date |-> sale_date])

EditExpense_NoAmountCheck(user, row, amount, expense_date) ==
    /\ EntryShiftChoices(user) # {}
    /\ BagIn(row, expenses)
    /\ UpdateExpense(row, [amount |-> amount, expense_date |-> expense_date])

EditExpense(user, row, amount, expense_date) ==
    /\ EntryShiftChoices(user) # {}
    /\ BagIn(row, expenses)
    /\ IF amount <= 0
       THEN /\ result' = AmountError
            /\ UNCHANGED <<shifts, tables, vendors, today>>
       ELSE UpdateExpense(row, [amount |-> amount, expense_date |-> expense_date])

EditPurchase(user, vendor_id, row, amount, purchase_date) ==
    /\ user.role \in VendorPageRoles
    /\ vendor_id \in ActiveVendors
    /\ EntryShiftChoices(user) # {}
    /\ BagIn(row, vendor_purchases) /\ row.vendor_id = vendor_id
    /\ IF amount <= 0
       THEN /\ result' = AmountError
            /\ UNCHANGED <<shifts, tables, vendors, today>>
       ELSE UpdatePurchase(row, [amount |-> amount, purchase_date |-> purchase_date])

EditPayment(user, vendor_id, row, amount, payment_date) ==
    /\ user.role \in VendorPageRoles
    /\ vendor_id \in ActiveVendors
    /\ EntryShiftChoices(user) # {}
    /\ BagIn(row, vendor_payments) /\ row.vendor_id = vendor_id
    /\ IF amount <= 0
       THEN /\ result' = AmountError
            /\ UNCHANGED <<shifts, tables, vendors, today>>
       ELSE UpdatePayment(row, [amount |-> amount, payment_date |-> payment_date])

EditReturn(user, vendor_id, row, amount, return_date) ==
    /\ user.role \in VendorPageRoles
    /\ vendor_id \in ActiveVendors
    /\ EntryShiftChoices(user) # {}
    /\ BagIn(row, vendor_returns) /\ row.vendor_id = vendor_id
    /\ IF amount <= 0
       THEN /\ result' = AmountError
            /\ UNCHANGED <<shifts, tables, vendors, today>>
       ELSE UpdateReturn(row, [amount |-> amount, return_date |-> return_date])

EditPersonalTransaction(user, row, amount, transaction_type, transaction_date) ==
    /\ user.role \in PersonalPageRoles
    /\ EntryShiftChoices(user) # {}
    /\ BagIn(row, personal_transactions)
    /\ IF amount <= 0
       THEN /\ result' = AmountError
            /\ UNCHANGED <<shifts, tables, vendors, today>>
       ELSE UpdateTransaction(row, [amount |-> amount,
                                    transaction_type |-> transaction_type,
                                    transaction_date |-> transaction_date])

\* --------------------------------------------------- personal balance
GetBalance_Reversed ==
    SumAmount(EqType(personal_transactions, "withdrawal"))
    - SumAmount(EqType(personal_transactions, "investment"))

\* PersonalLedgerManager.get_balance
GetBalance ==
    SumAmount(EqType(personal_transactions, "investment"))
    - SumAmount(EqType(personal_transactions, "withdrawal"))

\* show_personal_ledger down to the balance it displays
ShowPersonalBalance(user) ==
    /\ user.role \in PersonalPageRoles
    /\ EntryShiftChoices(user) # {}
    /\ result' = Result(TRUE, "balance", Some(GetBalance))
    /\ UNCHANGED <<shifts, tables, vendors, today>>

\* ---------------------------------------- record, edit, delete and close
\* One user of the highest role works through the pages: a Morning shift
\* (id 1), then an Evening shift, entries against the Morning shift while
\* it is open, edits through the forms, deletes through the managers.
EditUser == [id |-> 2, role |-> "Super User", shift |-> "none"]

EditAmounts == {0, 1, 2}

NextEdit ==
    \/ shifts = << >> /\ OpenShift("Morning", EditUser.id) /\ UNCHANGED session
    \/ Len(shifts) = 1 /\ OpenShift("Evening", EditUser.id) /\ UNCHANGED session
    \/ \E id \in ShiftIds :
          CloseShift(id, OPENING_CASH, EditUser.id) /\ UNCHANGED session
    \/ vendors = << >> /\ CreateVendor([opening_balance |-> 0], EditUser.id)
                       /\ UNCHANGED session
    \/ \E a \in EditAmounts :
          TxCount < MaxTx /\ RecordSale(EditUser, 1, a, today) /\ UNCHANGED session
    \/ \E a \in EditAmounts :
          TxCount < MaxTx /\ RecordExpense(EditUser, 1, a, today) /\ UNCHANGED session
    \/ \E a \in EditAmounts :
          TxCount < MaxTx /\ RecordPurchase(EditUser, 1, 1, a, today) /\ UNCHANGED session
    \/ \E a \in EditAmounts :
          TxCount < MaxTx /\ RecordPayment(EditUser, 1, 1, a, today) /\ UNCHANGED session
    \/ \E a \in EditAmounts :
          TxCount < MaxTx /\ RecordReturn(EditUser, 1, 1, a, today) /\ UNCHANGED session
    \/ \E a \in EditAmounts, t \in PersonalTypes :
          TxCount < MaxTx /\ RecordPersonal(EditUser, 1, t, a, today) /\ UNCHANGED session
    \/ \E row \in BagToSet(sales), a \in EditAmounts :
          EditSale(EditUser, row, a, today) /\ UNCHANGED session
    \/ \E row \in BagToSet(expenses), a \in EditAmounts :
          EditExpense(EditUser, row, a, today) /\ UNCHANGED session
    \/ \E row \in BagToSet(vendor_purchases), a \in EditAmounts :
          EditPurchase(EditUser, 1, row, a, today) /\ UNCHANGED session
    \/ \E row \in BagToSet(vendor_payments), a \in EditAmounts :
          EditPayment(EditUser, 1, row, a, today) /\ UNCHANGED session
    \/ \E row \in BagToSet(vendor_returns), a \in EditAmounts :
          EditReturn(EditUser, 1, row, a, today) /\ UNCHANGED session
    \/ \E row \in BagToSet(personal_transactions), a \in EditAmounts, t \in PersonalTypes :
          EditPersonalTransaction(EditUser, row, a, t, today) /\ UNCHANGED session
    \/ \E row \in BagToSet(sales) :
          DeleteSale(row, EditUser.role) /\ UNCHANGED session
    \/ \E row \in BagToSet(expenses) :
          DeleteExpense(row, EditUser.role) /\ UNCHANGED session
    \/ \E row \in BagToSet(vendor_purchases) :
          DeletePurchase(row, EditUser.role) /\ UNCHANGED session
    \/ \E row \in BagToSet(vendor_payments) :
          DeletePayment(row, EditUser.role) /\ UNCHANGED session
    \/ \E row \in BagToSet(vendor_returns) :
          DeleteReturn(row, EditUser.role) /\ UNCHANGED session
    \/ \E row \in BagToSet(personal_transactions) :
          DeletePersonalTransaction(row, EditUser.role) /\ UNCHANGED session
    \/ ShowPersonalBalance(EditUser) /\ UNCHANGED session

SpecEdit == Init /\ [][NextEdit]_vars

\* ======================================================= ReportsManager
\* VendorManager.toggle_active
ToggleActive(vendor_id, is_active) ==
    /\ vendors' = [v \in DOMAIN vendors |->
                     IF v = vendor_id THEN [vendors[v] EXCEPT !.is_active = is_active]
                     ELSE vendors[v]]
    /\ result' = Added(IF is_active THEN "Vendor enabled." ELSE "Vendor disabled.")
    /\ UNCHANGED <<shifts, tables, today>>

\* a table's select(...).eq(date_column, report_date)
EqDate(table, date_column, report_date) ==
    [r \in {x \in BagToSet(table) : x[date_column] = report_date} |-> table[r]]

RECURSIVE SumPositiveBalances(_)
SumPositiveBalances(ids) ==
    IF ids = {} THEN 0
    ELSE LET v == CHOOSE x \in ids : TRUE
         IN (IF vendors[v].current_balance > 0 THEN vendors[v].current_balance ELSE 0)
            + SumPositiveBalances(ids \ {v})

VendorPayable_AllVendors == SumPositiveBalances(DOMAIN vendors)

\* sum(v['current_balance'] for v in vendors if v['current_balance'] > 0)
\* over get_all_vendors(include_inactive=False)
VendorPayable == SumPositiveBalances(ActiveVendors)

\* get_daily_summary
GetDailySummary(report_date) ==
    LET total_sales == SumAmount(EqDate(sales, "sale_date", report_date))
        total_expenses == SumAmount(EqDate(expenses, "expense_date", report_date))
        payments == SumAmount(EqDate(vendor_payments, "payment_date", report_date))
        personal == EqDate(personal_transactions, "transaction_date", report_date)
        withdrawals == SumAmount(EqType(personal, "withdrawal"))
        investments == SumAmount(NotWithdrawal(personal))
    IN [total_sales |-> total_sales,
        total_expenses |-> total_expenses,
        vendor_payments |-> payments,
        withdrawals |-> withdrawals,
        investments |-> investments,
        net_cash |-> total_sales - total_expenses - payments - withdrawals + investments,
        vendor_payable |-> VendorPayable,
        personal_balance |-> GetBalance]

\* a call of get_daily_summary (the dashboard asks for today's)
ShowDailySummary(report_date) ==
    /\ result' = Result(TRUE, "daily summary", <<report_date, GetDailySummary(report_date)>>)
    /\ UNCHANGED <<shifts, tables, vendors, today>>

\* ------------------------------------------------- daily summary runs
\* Two vendors are created and switched off and on; sales, expenses,
\* vendor payments and personal transactions are recorded with dates of
\* either day; the summary of either day is asked for.
DailyAmounts == {1, 2}

NextDaily ==
    \/ shifts = << >> /\ OpenShift("Morning", EditUser.id) /\ UNCHANGED session
    \/ \E ob \in OpeningBalances :
          /\ Len(vendors) + 1 \in VendorIds
          /\ CreateVendor([opening_balance |-> ob], EditUser.id)
          /\ UNCHANGED session
    \/ \E v \in DOMAIN vendors :
          ToggleActive(v, ~vendors[v].is_active) /\ UNCHANGED session
    \/ \E a \in DailyAmounts, d \in Dates :
          TxCount < MaxTx /\ RecordSale(EditUser, 1, a, d) /\ UNCHANGED session
    \/ \E a \in DailyAmounts, d \in Dates :
          TxCount < MaxTx /\ RecordExpense(EditUser, 1, a, d) /\ UNCHANGED session
    \/ \E v \in VendorIds, a \in DailyAmounts, d \in Dates :
          TxCount < MaxTx /\ RecordPayment(EditUser, v, 1, a, d) /\ UNCHANGED session
    \/ \E a \in DailyAmounts, d \in Dates, t \in PersonalTypes :
          TxCount < MaxTx /\ RecordPersonal(EditUser, 1, t, a, d) /\ UNCHANGED session
    \/ \E d \in Dates : ShowDailySummary(d) /\ UNCHANGED session

SpecDaily == Init /\ [][NextDaily]_vars

\* ======================================================= store failures
\* close_shift when one of its store calls raises.  The calls, in order:
\* the select of the shift row, the six reads of calculate_expected_cash,
\* the update of the shift row.  calculate_expected_cash catches what its
\* reads raise and returns 0.0; close_shift catches what its own two calls
\* raise and returns the failure.
CalcCalls == {"opening", "sales", "expenses", "payments", "withdrawals", "investments"}

StoreCalls == {"select"} \cup CalcCalls \cup {"update"}

ErrorClosing == Result(FALSE, "Error closing shift", Null)

CloseShiftFailing(shift_id, closing_cash, closed_by, failed) ==
    /\ IF failed = "select"
       THEN /\ result' = ErrorClosing
            /\ UNCHANGED shifts
       ELSE IF shift_id \notin ShiftIds
       THEN /\ result' = NotFound
            /\ UNCHANGED shifts
       ELSE IF failed = "update"
       THEN /\ result' = ErrorClosing
            /\ UNCHANGED shifts
       ELSE /\ shifts' = [shifts EXCEPT ![shift_id] =
                             ClosedRow(shifts[shift_id], closing_cash, 0, closed_by)]
            /\ result' = Closed(shift_id)
    /\ UNCHANGED <<tables, vendors, today>>

\* shifts, sales and expenses, with closes whose store calls may fail
NextFail ==
    \/ \E T \in CashShiftTypes :
          /\ \A i \in ShiftIds : shifts[i].shift_name # T
          /\ OpenShift(T, 1)
          /\ UNCHANGED session
    \/ \E id \in ShiftIds, a \in Amounts :
          TxCount < MaxTx /\ AddSale([shift_id |-> id, amount |-> a], 1) /\ UNCHANGED session
    \/ \E id \in ShiftIds, a \in Amounts :
          TxCount < MaxTx /\ AddExpense([shift_id |-> id, amount |-> a], 1) /\ UNCHANGED session
    \/ \E id \in ShiftIds, c \in ClosingCashInputs :
          CloseShift(id, c, 1) /\ UNCHANGED session
    \/ \E id \in ShiftIds, c \in ClosingCashInputs, failed \in StoreCalls :
          CloseShiftFailing(id, c, 1, failed) /\ UNCHANGED session

SpecFail == Init /\ [][NextFail]_vars

\* ================================================================ claims
OpenOfType(T) == {i \in ShiftIds : shifts[i].shift_name = T /\ shifts[i].status = "open"}

\* C1: for every shift type, after any sequence of open_shift and
\* close_shift calls made one at a time, at most one shift row of the type
\* has status open.
SingleOpenShift == \A T \in ShiftTypes : Cardinality(OpenOfType(T)) <= 1

\* a type closed once and opened again
C1_Witness ==
    \E i, j \in ShiftIds :
        /\ i < j
        /\ shifts[i].shift_name = shifts[j].shift_name
        /\ shifts[i].status = "closed"
        /\ shifts[j].status = "open"

\* C2: two sessions that run open_shift for the same type at the same time
\* never leave two open rows of that type in the store.
NoDoubleOpenAfterRace ==
    \A i, j \in ShiftIds :
        (shifts[i].status = "open" /\ shifts[j].status = "open"
            /\ shifts[i].shift_name = shifts[j].shift_name) => i = j

\* C3: open_shift(T) called while a shift of type T is open returns the
\* "already open" failure with no shift payload and leaves the shifts table
\* as it was, with exactly one open row of T.
OpenWhileOpenFails ==
    [][\A T \in ShiftTypes, u \in UserIds :
          (OpenShift(T, u) /\ OpenOfType(T) # {}) =>
              /\ result' = [success |-> FALSE, message |-> "shift is already open.", data |-> Null]
              /\ shifts' = shifts
              /\ Cardinality({i \in DOMAIN shifts' : shifts'[i].shift_name = T
                                                     /\ shifts'[i].status = "open"}) = 1]_vars

C3_Witness ==
    /\ result = [success |-> FALSE, message |-> "shift is already open.", data |-> Null]
    /\ \E T \in ShiftTypes : Cardinality(OpenOfType(T)) = 1

\* what the rows of a table tagged with a shift add up to
RECURSIVE TaggedTotal(_, _)
TaggedTotal(table, shift_id) ==
    IF DOMAIN table = {} THEN 0
    ELSE LET r == CHOOSE x \in DOMAIN table : TRUE
             rest == [x \in DOMAIN table \ {r} |-> table[x]]
         IN (IF r.shift_id = shift_id THEN table[r] * r.amount ELSE 0) + TaggedTotal(rest, shift_id)

PersonalOfType(t) ==
    [r \in {x \in DOMAIN personal_transactions : x.transaction_type = t} |-> personal_transactions[r]]

DifferenceIsClosingMinusExpected ==
    \A i \in ShiftIds :
        shifts[i].status = "closed" =>
            /\ shifts[i].cash_difference = <<shifts[i].closing_cash[1] - shifts[i].expected_cash[1]>>
            /\ (shifts[i].closing_cash = shifts[i].expected_cash => shifts[i].cash_difference = <<0>>)

\* a shift with a sale closed with exactly the expected cash
C5_Witness ==
    \E i \in ShiftIds :
        /\ result = Closed(i)
        /\ shifts[i].expected_cash = <<10001>>
        /\ shifts[i].closing_cash = <<10001>>
        /\ shifts[i].cash_difference = <<0>>

\* C6: once a shift row is closed no later call changes it: its closing
\* fields stay as the first close wrote them and it is never open again.
ClosedIsTerminal ==
    [][\A i \in ShiftIds : shifts[i].status = "closed" => shifts'[i] = shifts[i]]_vars

\* C7: a sale tagged with shift S that is committed between close_shift's
\* reads and its update is included in the expected_cash the update stores
\* (or its insert fails): the stored value covers every row committed by
\* the time of the update.
CloseMissesNoCommittedRow ==
    [][\A s \in Sessions :
          (pc[s] = "close_update" /\ pc'[s] = "idle") =>
              shifts'[loc[s].shift_id].expected_cash[1]
                  = shifts[loc[s].shift_id].opening_cash
                    + TaggedTotal(sales, loc[s].shift_id)
                    - TaggedTotal(expenses, loc[s].shift_id)
                    - TaggedTotal(vendor_payments, loc[s].shift_id)
                    - TaggedTotal(PersonalOfType("withdrawal"), loc[s].shift_id)
                    + TaggedTotal(PersonalOfType("investment"), loc[s].shift_id)]_vars

\* rows of all six transaction tables tagged with a shift
TaggedRows(sa, ex, pu, pa, re, pe, shift_id) ==
    BagCardinality(EqShiftId(sa, shift_id)) + BagCardinality(EqShiftId(ex, shift_id))
    + BagCardinality(EqShiftId(pu, shift_id)) + BagCardinality(EqShiftId(pa, shift_id))
    + BagCardinality(EqShiftId(re, shift_id)) + BagCardinality(EqShiftId(pe, shift_id))

\* C8: a transaction row is written only while the shift it is tagged with
\* is open; an add_* naming a shift that is closed at write time writes
\* nothing.
WritesOnlyToOpenShift ==
    [][\A id \in ShiftIds :
          TaggedRows(sales', expenses', vendor_purchases', vendor_payments', vendor_returns',
                     personal_transactions', id)
            > TaggedRows(sales, expenses, vendor_purchases, vendor_payments, vendor_returns,
                         personal_transactions, id)
          => shifts[id].status = "open"]_vars

\* C9: close_shift with an id that matches no shift row returns the "not
\* found" failure with no payload and changes nothing in the store.
CloseUnknownIdFails ==
    [][\A id \in 1..(MaxShifts + 1), c \in ClosingCashInputs, u \in UserIds :
          (CloseShift(id, c, u) /\ id \notin ShiftIds) =>
              /\ result' = [success |-> FALSE, message |-> "Shift not found.", data |-> Null]
              /\ UNCHANGED <<shifts, tables, vendors>>]_vars

C9_Witness ==
    /\ result = [success |-> FALSE, message |-> "Shift not found.", data |-> Null]
    /\ shifts # << >>

\* C10: a successful open_shift(T, actor) inserts exactly one shift row,
\* with shift_name T, status open, opened_by actor and opening_cash 10000,
\* and every shift row's opening_cash is 10000 in every reachable state.
OpenInsertsOneRow ==
    /\ [](\A i \in ShiftIds : shifts[i].opening_cash = 10000)
    /\ [][\A T \in ShiftTypes, u \in UserIds :
             (OpenShift(T, u) /\ result'.success) =>
                 /\ Len(shifts') = Len(shifts) + 1
                 /\ SubSeq(shifts', 1, Len(shifts)) = shifts
                 /\ shifts'[Len(shifts')].shift_name = T
                 /\ shifts'[Len(shifts')].status = "open"
                 /\ shifts'[Len(shifts')].opened_by = u
                 /\ shifts'[Len(shifts')].opening_cash = 10000]_vars

\* a second row just opened, by the second user
C10_Witness ==
    /\ result = Opened(2)
    /\ Len(shifts) = 2
    /\ shifts[2].opened_by = 2
    /\ shifts[2].status = "open"

\* what the rows of a table that belong to a vendor add up to
RECURSIVE VendorSum(_, _)
VendorSum(table, vendor_id) ==
    IF DOMAIN table = {} THEN 0
    ELSE LET r == CHOOSE x \in DOMAIN table : TRUE
             rest == [x \in DOMAIN table \ {r} |-> table[x]]
         IN (IF r.vendor_id = vendor_id THEN table[r] * r.amount ELSE 0)
            + VendorSum(rest, vendor_id)

DatedBefore(table, vendor_id, day, date_column) ==
    [r \in {x \in DOMAIN table : x.vendor_id = vendor_id /\ x[date_column] < day} |-> table[r]]

\* a vendor's balance when day starts
BalanceBefore(vendor_id, day) ==
    vendors[vendor_id].opening_balance
    + VendorSum(DatedBefore(vendor_purchases, vendor_id, day, "purchase_date"), vendor_id)
    - VendorSum(DatedBefore(vendor_payments, vendor_id, day, "payment_date"), vendor_id)
    - VendorSum(DatedBefore(vendor_returns, vendor_id, day, "return_date"), vendor_id)

\* debit minus credit over the entries i..Len of a returned ledger
RECURSIVE NetFrom(_, _)
NetFrom(ledger, i) ==
    IF i > Len(ledger) THEN 0
    ELSE ledger[i].debit - ledger[i].credit + NetFrom(ledger, i + 1)

\* C12: the running balance of get_vendor_ledger(vendor, start, end) starts
\* from the vendor's balance as of start (opening_balance and everything
\* dated before start), so each entry shows the vendor's cumulative balance
\* after that entry whatever the window.
LedgerSeededAtWindowStart ==
    \A v \in DOMAIN vendors, s \in Dates, e \in Dates :
        \A ledger \in GetVendorLedger(v, s, e) :
            \A i \in 1..Len(ledger) :
                ledger[i].balance = BalanceBefore(v, s) + NetFrom(ledger, i)

\* C13: over the entries in ascending date order, balance[i] = balance[i-1]
\* + debit[i] - credit[i], with the vendor's opening balance before the
\* first entry.
RunningBalanceRecurrence ==
    \A v \in DOMAIN vendors, s \in Dates, e \in Dates :
        \A ledger \in GetVendorLedger(v, s, e) :
            LET n == Len(ledger)
                asc == [i \in 1..n |-> ledger[n + 1 - i]]
            IN \A i \in 1..n :
                  /\ i > 1 => asc[i - 1].date <= asc[i].date
                  /\ asc[i].balance =
                        (IF i = 1 THEN vendors[v].opening_balance ELSE asc[i - 1].balance)
                        + asc[i].debit - asc[i].credit

\* opening 5, a debit of 2 then a credit of 1: balances 7 and 6
C13_Witness ==
    /\ result.message = "ledger"
    /\ Len(result.data) = 2
    /\ result.data[2].debit = 2 /\ result.data[2].balance = 7
    /\ result.data[1].credit = 1 /\ result.data[1].balance = 6

\* every purchase, payment and return of the vendor is dated in the window
AllInside(vendor_id, start_date, end_date) ==
    /\ \A r \in DOMAIN vendor_purchases :
          r.vendor_id = vendor_id => start_date <= r.purchase_date /\ r.purchase_date <= end_date
    /\ \A r \in DOMAIN vendor_payments :
          r.vendor_id = vendor_id => start_date <= r.payment_date /\ r.payment_date <= end_date
    /\ \A r \in DOMAIN vendor_returns :
          r.vendor_id = vendor_id => start_date <= r.return_date /\ r.return_date <= end_date

EntryCount(ledger, d, t, debit, credit) ==
    Cardinality({i \in 1..Len(ledger) :
                    /\ ledger[i].date = d /\ ledger[i].type = t
                    /\ ledger[i].debit = debit /\ ledger[i].credit = credit})

\* rows of a table held for a vendor with the given date and amount
RowCount(table, vendor_id, d, a, date_column) ==
    BagCardinality([r \in {x \in DOMAIN table :
                              x.vendor_id = vendor_id /\ x[date_column] = d /\ x.amount = a}
                    |-> table[r]])

LedgerReturnedLatestFirst ==
    \A v \in DOMAIN vendors, s \in Dates, e \in Dates :
        \A ledger \in GetVendorLedger(v, s, e) :
            /\ \A i, j \in 1..Len(ledger) : i < j => ledger[i].date >= ledger[j].date
            /\ ledger # << >> =>
                  /\ ledger[1].balance = vendors[v].opening_balance + NetFrom(ledger, 1)
                  /\ ledger[Len(ledger)].balance =
                        vendors[v].opening_balance + NetFrom(ledger, Len(ledger))

\* two purchases on different days returned latest first
C16_Witness ==
    /\ result.message = "ledger"
    /\ Len(result.data) = 2
    /\ result.data[1].date = 2 /\ result.data[2].date = 1
    /\ result.data[1].type = "Purchase" /\ result.data[2].type = "Purchase"
    /\ result.data[1].balance = result.data[2].balance + result.data[1].debit

DeniedRoles == {"Morning User", "Evening User", "Night User", "Accountant"}

AllRows ==
    BagToSet(sales) \cup BagToSet(expenses) \cup BagToSet(vendor_purchases)
    \cup BagToSet(vendor_payments) \cup BagToSet(vendor_returns)
    \cup BagToSet(personal_transactions)

\* C17: each of the seven delete operations, called with role Morning User,
\* Evening User, Night User or Accountant, returns the permission-denied
\* failure and leaves the store unchanged.
DeniedRolesCannotDelete ==
    [][\A role \in DeniedRoles, row \in AllRows, table \in TableNames :
          (\/ DeleteSale(row, role)
           \/ DeleteExpense(row, role)
           \/ DeletePurchase(row, role)
           \/ DeletePayment(row, role)
           \/ DeleteReturn(row, role)
           \/ DeleteVendorTransaction(table, row, role)
           \/ DeletePersonalTransaction(row, role))
          => /\ result' = [success |-> FALSE, message |-> "Permission denied.", data |-> Null]
             /\ UNCHANGED <<tables, shifts, vendors>>]_vars

\* a delete just refused while two rows are stored
C17_Witness ==
    /\ result.message = "Permission denied."
    /\ ~result.success
    /\ TxCount = 2

\* C18: the add_* methods called with amount <= 0 return a validation
\* failure and write nothing, so no stored row has an amount <= 0.
NoNonPositiveAmountStored == \A r \in AllRows : r.amount > 0

\* C19: can_edit_shift(user, T) is true for a Super User and an Accountant
\* whatever T is, true for a Morning, Evening or Night User exactly when the
\* user's shift is T, and false for every other role, Owner included.
CanEditShiftByRole ==
    /\ \A role \in Roles, shift \in ShiftTypes \cup {"none"}, T \in ShiftTypes :
          CanEditShift([role |-> role, shift |-> shift], T)
            = (\/ role \in {"Super User", "Accountant"}
               \/ role \in {"Morning User", "Evening User", "Night User"} /\ shift = T)
    /\ result.message = "can_edit_shift" =>
          result.success
            = (\/ result.data[1] \in {"Super User", "Accountant"}
               \/ /\ result.data[1] \in {"Morning User", "Evening User", "Night User"}
                  /\ result.data[2] = result.data[3])

\* an Evening User asked about the Evening shift
C19_Witness ==
    /\ result.message = "can_edit_shift"
    /\ result.data = <<"Evening User", "Evening", "Evening">>
    /\ result.success

\* C20: add_transaction of the personal ledger refuses an actor whose role
\* is not Super User or Owner and writes nothing, so every stored personal
\* transaction was created by a Super User or an Owner.
PersonalRowsByOwnerTier ==
    \A r \in DOMAIN personal_transactions :
        \E user \in ConcUsers : user.id = r.created_by /\ user.role \in {"Super User", "Owner"}

\* C21: on every entry page a Morning, Evening or Night User can tag a new
\* transaction only with the open shift of the user's own type, and a
\* Super User, Owner or Accountant can choose any shift that is open,
\* whatever its opening date.
EntryShiftByRole ==
    \A user \in ConcUsers :
        EntryShiftChoices(user) =
            IF user.role \in {"Morning User", "Evening User", "Night User"}
            THEN {i \in ShiftIds : shifts[i].status = "open" /\ shifts[i].shift_name = user.shift}
            ELSE {i \in ShiftIds : shifts[i].status = "open"}

\* what the stored personal transactions add up to, row by row
RECURSIVE SignedPersonal(_)
SignedPersonal(rows) ==
    IF rows = {} THEN 0
    ELSE LET r == CHOOSE x \in rows : TRUE
         IN personal_transactions[r]
              * (CASE r.transaction_type = "investment" -> r.amount
                   [] r.transaction_type = "withdrawal" -> 0 - r.amount
                   [] OTHER -> 0)
            + SignedPersonal(rows \ {r})

\* C22: after any sequence of adds, updates (a change of type included) and
\* deletes of personal transactions, get_balance() is the sum of the stored
\* investment amounts minus the sum of the stored withdrawal amounts, over
\* all dates.
PersonalBalanceDerived ==
    /\ GetBalance = SignedPersonal(BagToSet(personal_transactions))
    /\ result.message = "balance" =>
          result.data = <<SignedPersonal(BagToSet(personal_transactions))>>

\* the page shows balance 1 with a withdrawal among the stored rows
C22_Witness ==
    /\ result.message = "balance"
    /\ result.data = <<1>>
    /\ \E r \in BagToSet(personal_transactions) : r.transaction_type = "withdrawal"

\* the amounts of a table's rows dated day, row by row
RECURSIVE DayTotal(_, _, _, _)
DayTotal(table, rows, date_column, day) ==
    IF rows = {} THEN 0
    ELSE LET r == CHOOSE x \in rows : TRUE
         IN (IF r[date_column] = day THEN table[r] * r.amount ELSE 0)
            + DayTotal(table, rows \ {r}, date_column, day)

RECURSIVE PayableOf(_)
PayableOf(n) ==
    IF n = 0 THEN 0
    ELSE (IF vendors[n].is_active /\ vendors[n].current_balance > 0
          THEN vendors[n].current_balance ELSE 0)
         + PayableOf(n - 1)

DailySummaryOf(s, day) ==
    /\ s.total_sales = DayTotal(sales, BagToSet(sales), "sale_date", day)
    /\ s.total_expenses = DayTotal(expenses, BagToSet(expenses), "expense_date", day)
    /\ s.vendor_payments
         = DayTotal(vendor_payments, BagToSet(vendor_payments), "payment_date", day)
    /\ s.withdrawals
         = DayTotal(personal_transactions,
                    {r \in BagToSet(personal_transactions) : r.transaction_type = "withdrawal"},
                    "transaction_date", day)
    /\ s.investments
         = DayTotal(personal_transactions,
                    {r \in BagToSet(personal_transactions) : r.transaction_type = "investment"},
                    "transaction_date", day)
    /\ s.net_cash = s.total_sales - s.total_expenses - s.vendor_payments
                    - s.withdrawals + s.investments
    /\ s.vendor_payable = PayableOf(Len(vendors))

CloseFailureIsReturned ==
    [][\A id \in ShiftIds, c \in ClosingCashInputs, failed \in StoreCalls :
          CloseShiftFailing(id, c, 1, failed) =>
              /\ ~result'.success
              /\ shifts' = shifts]_vars

UpdateMessages == {"Sale updated.", "Expense updated.", "Purchase updated.",
                   "Payment updated.", "Return updated.", "Transaction updated."}

DeleteMessages == {"Sale deleted.", "Expense deleted.", "Purchase deleted.",
                   "Payment deleted.", "Return deleted.", "Transaction deleted."}

\* the table an update or delete method that returns this message works on
MessageTable(message) ==
    CASE message \in {"Sale updated.", "Sale deleted."} -> "sales"
      [] message \in {"Expense updated.", "Expense deleted."} -> "expenses"
      [] message \in {"Purchase updated.", "Purchase deleted."} -> "vendor_purchases"
      [] message \in {"Payment updated.", "Payment deleted."} -> "vendor_payments"
      [] message \in {"Return updated.", "Return deleted."} -> "vendor_returns"
      [] OTHER -> "personal_transactions"

\* at most one row leaves the table and at most one row enters it
OneRowChanged(old, new) ==
    /\ BagCardinality(old (-) new) <= 1
    /\ BagCardinality(new (-) old) <= 1

\* C25: an update or a delete of a transaction, also of one tagged with a
\* closed shift, changes that one row of its own table and nothing else:
\* the shift rows keep their stored expected_cash, cash_difference,
\* closing_cash and status.
EditLeavesShiftsAlone ==
    [][result'.message \in UpdateMessages \cup DeleteMessages =>
          LET name == MessageTable(result'.message)
          IN /\ shifts' = shifts
             /\ IF name = "sales" THEN OneRowChanged(sales, sales') ELSE sales' = sales
             /\ IF name = "expenses" THEN OneRowChanged(expenses, expenses')
                ELSE expenses' = expenses
             /\ IF name = "vendor_purchases"
                THEN OneRowChanged(vendor_purchases, vendor_purchases')
                ELSE vendor_purchases' = vendor_purchases
             /\ IF name = "vendor_payments"
                THEN OneRowChanged(vendor_payments, vendor_payments')
                ELSE vendor_payments' = vendor_payments
             /\ IF name = "vendor_returns"
                THEN OneRowChanged(vendor_returns, vendor_returns')
                ELSE vendor_returns' = vendor_returns
             /\ IF name = "personal_transactions"
                THEN OneRowChanged(personal_transactions, personal_transactions')
                ELSE personal_transactions' = personal_transactions]_vars

\* a sale of the closed Morning shift has just been edited, and the
\* expected cash stored at the close is no longer what the shift's rows
\* add up to
C25_Witness ==
    /\ result.message = "Sale updated."
    /\ Len(shifts) >= 1
    /\ shifts[1].status = "closed"
    /\ \E r \in BagToSet(sales) : r.shift_id = 1
    /\ shifts[1].expected_cash # <<CalculateExpectedCash(1)>>

\* rows of the table tagged with the shift
TagCount(table, shift_id) == BagCardinality(EqShiftId(table, shift_id))

\* C26: the shift tag of a transaction is permanent: a submit of an edit
\* form and a close of a shift leave, in every table, the number of rows
\* tagged with each shift as it was.
ShiftTagPermanent ==
    [][result'.message \in UpdateMessages \cup {"Amount must be > 0.", "Shift closed."} =>
          \A id \in 1..2 :
              /\ TagCount(sales', id) = TagCount(sales, id)
              /\ TagCount(expenses', id) = TagCount(expenses, id)
              /\ TagCount(vendor_purchases', id) = TagCount(vendor_purchases, id)
              /\ TagCount(vendor_payments', id) = TagCount(vendor_payments, id)
              /\ TagCount(vendor_returns', id) = TagCount(vendor_returns, id)
              /\ TagCount(personal_transactions', id) = TagCount(personal_transactions, id)]_vars

\* a sale tagged with the Morning shift has been edited while the Evening
\* shift is the only open one
C26_Witness ==
    /\ result.message = "Sale updated."
    /\ Len(shifts) = 2
    /\ shifts[1].status = "closed"
    /\ shifts[2].status = "open"
    /\ \E r \in BagToSet(sales) : r.shift_id = 1 /\ r.amount = 2

\* C30: whatever is recorded and edited through the forms, every row of
\* every transaction table has an amount greater than zero, and a submit the
\* forms answer with the amount error is a failure.
FormsKeepAmountsPositive ==
    /\ \A table \in {sales, expenses, vendor_purchases, vendor_payments,
                     vendor_returns, personal_transactions} :
          \A r \in BagToSet(table) : r.amount > 0
    /\ result.message = "Amount must be > 0." => ~result.success

\* an edit form has just refused an amount (the record forms are past their
\* bound with two rows stored), and a row edited earlier to 2 is stored
C30_Witness ==
    /\ result = AmountError
    /\ TxCount = 2
    /\ \E r \in BagToSet(expenses) : r.amount = 2

\* what the cash formula gives on the opening float and a shift summary
ExpectedFromSummary(opening, s) ==
    opening + s.sales - s.expenses - s.vendor_payments - s.withdrawals + s.investments

\* C29: for every shift, calculate_expected_cash equals the opening float
\* plus the summary's sales, minus its expenses, vendor payments and
\* withdrawals, plus its investments; the two figures the My Shift page
\* shows side by side agree in the same way.
SummaryAgreesWithExpectedCash ==
    /\ \A id \in ShiftIds :
          CalculateExpectedCash(id)
              = ExpectedFromSummary(shifts[id].opening_cash, GetShiftSummary(id))
    /\ result.message = "my shift" =>
          result.data[3]
              = ExpectedFromSummary(shifts[result.data[1]].opening_cash, result.data[2])

\* the Morning User looks at a shift that carries a withdrawal and an
\* investment
C29_Witness ==
    /\ result.message = "my shift"
    /\ result.data[2].withdrawals = 1
    /\ result.data[2].investments = 1
    /\ result.data[3] = OPENING_CASH

\* the columns close_shift writes besides status
ClosingFields == {"closing_date", "closing_cash", "expected_cash",
                  "cash_difference", "closed_by"}

\* C27: in every state each shift row is open with every closing field
\* empty or closed with every closing field filled; no step removes a shift
\* row or turns a row into another shift.
ClosingFieldsIffClosed ==
    /\ [](\A i \in ShiftIds :
            \/ /\ shifts[i].status = "open"
               /\ \A f \in ClosingFields : shifts[i][f] = Null
            \/ /\ shifts[i].status = "closed"
               /\ \A f \in ClosingFields : shifts[i][f] # Null)
    /\ [][/\ Len(shifts') >= Len(shifts)
          /\ \A i \in ShiftIds :
                /\ shifts'[i].shift_name = shifts[i].shift_name
                /\ shifts'[i].opening_date = shifts[i].opening_date
                /\ shifts'[i].opened_by = shifts[i].opened_by]_vars

\* one shift closed, with its closing fields, next to one still open
C27_Witness ==
    /\ Len(shifts) = 2
    /\ shifts[1].status = "open"
    /\ shifts[1].closing_cash = Null
    /\ shifts[2].status = "closed"
    /\ shifts[2].closing_cash = <<OPENING_CASH + 1>>
    /\ shifts[2].cash_difference = <<1>>
    /\ shifts[2].closed_by = <<2>>

\* C28: open_shift(T) called while no row of type T is open, whatever other
\* rows there are (closed rows of T, open rows of other types), succeeds:
\* it returns the new row's id, the new row is an open row of T, and the
\* rows that were there are untouched.
OpenAfterCloseSucceeds ==
    [][\A T \in ShiftTypes, u \in UserIds :
          (OpenShift(T, u) /\ OpenOfType(T) = {}) =>
              /\ result'.success
              /\ result'.data = <<Len(shifts) + 1>>
              /\ Len(shifts') = Len(shifts) + 1
              /\ shifts'[Len(shifts')].shift_name = T
              /\ shifts'[Len(shifts')].status = "open"
              /\ \A i \in ShiftIds : shifts'[i] = shifts[i]]_vars

\* the second instance of a type has just been opened after the first was
\* closed
C28_Witness ==
    /\ result.success
    /\ result.data = <<2>>
    /\ Len(shifts) = 2
    /\ shifts[1].shift_name = shifts[2].shift_name
    /\ shifts[1].status = "closed"
    /\ shifts[2].status = "open"
====
